---------------------------- MODULE Spec2Model ----------------------------
(* State-machine model of the two MCP adapters of llama-stack-mcp-server:    *)
(*   custom-mcp-helsinki/helsinki_transport.py  (find_stop, get_stop_info,   *)
(*       get_departures, get_timetable, format_departure, format_arrival)    *)
(*   custom-mcp-llm/draft_finnish.py            (draft_finnish)              *)
(* A tool invocation is a coroutine: it runs up to its single await (the     *)
(* outbound call), is suspended until the upstream answers, and then runs   *)
(* to its return (or to the exception that escapes it).                      *)
EXTENDS Integers, Sequences, FiniteSets, TLC

VARIABLES
    pc,         \* pc[i]: "idle" | "awaiting" | "resumed" | "done"
    op,         \* op[i]: the tool invoked in slot i
    args,       \* args[i]: the arguments of the invocation
    local_endpoint,  \* local_endpoint[i]: the local "endpoint" of draft_finnish
    started,    \* started[i]: os.environ as it was when the invocation started
    sent,       \* sent[i]: the outbound request the invocation issued, if any
    reply,      \* reply[i]: what the upstream answered to that request
    outcome,    \* outcome[i]: the string returned, or the exception raised
    calls,      \* calls[i]: outbound calls issued by the invocation in slot i
    environ,    \* os.environ: VLLM_ENDPOINT, VLLM_API_KEY, VLLM_MODEL
    DEFAULT_SYSTEM_PROMPT,  \* module constant of draft_finnish.py, set at import
    utcOffset,  \* the local time zone of the process, seconds east of UTC
    fmt         \* the last application of format_departure / format_arrival

vars == <<pc, op, args, local_endpoint, started, sent, reply, outcome, calls, environ,
          DEFAULT_SYSTEM_PROMPT, utcOffset, fmt>>

(***************************************************************************)
(* Bounds of the model.                                                    *)
(***************************************************************************)
MaxStops == 3        \* longest upstream stop list of find_stop
MaxStoptimes == 2    \* longest upstream stop-time list
MaxDelay == 2        \* delays range over -MaxDelay..MaxDelay seconds
MaxMissing == 2      \* attributes of a stop that may be absent or null at once
MaxContentLen == 2   \* longest completion text, in characters

(***************************************************************************)
(* JSON / Python values.  A value is a record tagged by t; each tag has    *)
(* its own payload field.  Absent stands for a key that the dict lacks.    *)
(***************************************************************************)
Absent == [t |-> "absent"]
Null == [t |-> "null"]
EmptyObj == [t |-> "emptyobj"]
Num(n) == [t |-> "int", n |-> n]
Str(s) == [t |-> "str", s |-> s]
List(q) == [t |-> "list", items |-> q]
Text(q) == [t |-> "text", chars |-> q]

Return(s) == [kind |-> "return", text |-> s]
Raise(e) == [kind |-> "raise", text |-> e]
NoOutcome == [kind |-> "none", text |-> ""]

\* dict.get(key, default): the default only when the key is absent.
Get(v, default) == IF v.t = "absent" THEN default ELSE v

\* Python truthiness, as used by "not x".
Falsy(v) ==
    \/ v.t \in {"absent", "null", "emptyobj"}
    \/ v.t = "int" /\ v.n = 0
    \/ v.t = "str" /\ v.s = ""
    \/ v.t = "list" /\ v.items = <<>>
    \/ v.t = "text" /\ v.chars = <<>>

\* str(v) as an f-string renders it.
PyStr(v) ==
    CASE v.t = "null" -> "None"
      [] v.t = "int" -> ToString(v.n)
      [] v.t = "str" -> v.s
      [] OTHER -> "?"

\* abs(n)
Abs(n) == IF n < 0 THEN 0 - n ELSE n

\* seq[:k], Python slice semantics (a negative k counts from the end).
Min(a, b) == IF a < b THEN a ELSE b
Max(a, b) == IF a < b THEN b ELSE a
SliceTo(seq, k) ==
    IF k >= 0 THEN SubSeq(seq, 1, Min(k, Len(seq)))
    ELSE SubSeq(seq, 1, Max(Len(seq) + k, 0))

\* sep.join(lines)
RECURSIVE Join(_, _)
Join(lines, sep) ==
    IF lines = <<>> THEN ""
    ELSE IF Len(lines) = 1 THEN lines[1]
    ELSE lines[1] \o sep \o Join(Tail(lines), sep)

(***************************************************************************)
(* helsinki_transport.py                                                   *)
(***************************************************************************)
DEFAULT_STOP_ID == "HSL:1040129"

\* make_graphql_request: every failure of the call becomes None.
make_graphql_request(r) == IF r.net = "json" THEN r.body ELSE Null

Pad2(n) == IF n < 10 THEN "0" \o ToString(n) ELSE ToString(n)

\* format_time: local wall-clock HH:MM:SS of service_day + seconds.
format_time(service_day, seconds) ==
    IF service_day.t # "int" \/ seconds.t # "int" THEN Raise("TypeError")
    ELSE LET local == (service_day.n + seconds.n + utcOffset) % 86400
         IN  Return(Pad2(local \div 3600) \o ":" \o Pad2((local % 3600) \div 60)
                    \o ":" \o Pad2(local % 60))

\* Variant: "delay >= 0" in place of "delay > 0".
time_info_nonneg(scheduled_time, delay) ==
    IF delay >= 0 THEN scheduled_time \o " (Delayed by " \o ToString(delay) \o "s)"
    ELSE scheduled_time \o " (Early by " \o ToString(Abs(delay)) \o "s)"

\* The delay annotation shared by format_departure and format_arrival.
time_info(scheduled_time, delay) ==
    IF delay > 0 THEN scheduled_time \o " (Delayed by " \o ToString(delay) \o "s)"
    ELSE IF delay < 0 THEN scheduled_time \o " (Early by " \o ToString(Abs(delay)) \o "s)"
    ELSE scheduled_time

format_departure(stoptime, service_day) ==
    IF stoptime.t # "obj" THEN Raise("AttributeError")
    ELSE
    LET scheduled_dep == Get(stoptime.scheduledDeparture, Num(0))
        delay == Get(stoptime.departureDelay, Num(0))
        headsign == Get(stoptime.headsign, Str("Unknown destination"))
        trip == Get(stoptime.trip, EmptyObj)
        route_short_name ==
            IF trip.t = "emptyobj" THEN Str("N/A")
            ELSE Get(trip.routeShortName, Str("N/A"))
        scheduled_time == format_time(service_day, scheduled_dep)
    IN  IF trip.t \notin {"obj", "emptyobj"} THEN Raise("AttributeError")
        ELSE IF scheduled_time.kind = "raise" THEN scheduled_time
        ELSE IF delay.t # "int" THEN Raise("TypeError")
        ELSE Return(time_info(scheduled_time.text, delay.n) \o " - Route "
                    \o PyStr(route_short_name) \o " to " \o PyStr(headsign))

format_arrival(stoptime, service_day) ==
    IF stoptime.t # "obj" THEN Raise("AttributeError")
    ELSE
    LET scheduled_arr == Get(stoptime.scheduledArrival, Num(0))
        delay == Get(stoptime.arrivalDelay, Num(0))
        headsign == Get(stoptime.headsign, Str("Unknown origin"))
        trip == Get(stoptime.trip, EmptyObj)
        route_short_name ==
            IF trip.t = "emptyobj" THEN Str("N/A")
            ELSE Get(trip.routeShortName, Str("N/A"))
        scheduled_time == format_time(service_day, scheduled_arr)
    IN  IF trip.t \notin {"obj", "emptyobj"} THEN Raise("AttributeError")
        ELSE IF scheduled_time.kind = "raise" THEN scheduled_time
        ELSE IF delay.t # "int" THEN Raise("TypeError")
        ELSE Return(time_info(scheduled_time.text, delay.n) \o " - Route "
                    \o PyStr(route_short_name) \o " from " \o PyStr(headsign))
\* [format_departure(st, service_day) for st in stoptimes] followed by
\* header + "\n".join(...): the first formatting error escapes.
departure_lines(header, stoptimes, service_day) ==
    LET lines == [k \in 1..Len(stoptimes) |-> format_departure(stoptimes[k], service_day)]
        bad == {k \in 1..Len(stoptimes) : lines[k].kind = "raise"}
    IN  IF bad # {} THEN lines[CHOOSE k \in bad : \A m \in bad : k <= m]
        ELSE Return(header \o Join([k \in 1..Len(stoptimes) |-> lines[k].text], "\n"))

\* The part of get_departures after its await.
get_departures(a, data) ==
    IF Falsy(data) THEN Return("Unable to fetch departures for stop ID: " \o a.stop_id)
    ELSE IF data.t = "int" THEN Raise("TypeError")
    ELSE IF data.t = "list" \/ data.data.t = "absent"
        THEN Return("Unable to fetch departures for stop ID: " \o a.stop_id)
    ELSE IF data.data.t = "null" THEN Raise("AttributeError")
    ELSE IF data.data.t = "emptyobj" \/ Falsy(data.data.stop)
        THEN Return("Unable to fetch departures for stop ID: " \o a.stop_id)
    ELSE
    LET stop_data == data.data.stop
        stop_name == Get(stop_data.name, Str("Unknown stop"))
        stoptimes == Get(stop_data.stoptimesWithoutPatterns, List(<<>>))
    IN  IF Falsy(stoptimes)
            THEN Return("No departures found for stop: " \o PyStr(stop_name)
                        \o " (" \o a.stop_id \o ")")
        ELSE IF stoptimes.items[1].t # "obj" THEN Raise("AttributeError")
        ELSE departure_lines(
                "Departures from " \o PyStr(stop_name) \o " (" \o a.stop_id \o "):\n",
                stoptimes.items, Get(stoptimes.items[1].serviceDay, Num(0)))

\* The part of get_timetable after its await.
get_timetable(a, data) ==
    IF Falsy(data) THEN Return("Unable to fetch timetable for stop ID: " \o a.stop_id)
    ELSE IF data.t = "int" THEN Raise("TypeError")
    ELSE IF data.t = "list" \/ data.data.t = "absent"
        THEN Return("Unable to fetch timetable for stop ID: " \o a.stop_id)
    ELSE IF data.data.t = "null" THEN Raise("AttributeError")
    ELSE IF data.data.t = "emptyobj" \/ Falsy(data.data.stop)
        THEN Return("Unable to fetch timetable for stop ID: " \o a.stop_id)
    ELSE
    LET stop_data == data.data.stop
        stop_name == Get(stop_data.name, Str("Unknown stop"))
        stoptimes == Get(stop_data.stoptimesWithoutPatterns, List(<<>>))
        time_range_minutes == a.time_range \div 60
    IN  IF Falsy(stoptimes)
            THEN Return("No timetable entries found for stop: " \o PyStr(stop_name)
                        \o " (" \o a.stop_id \o ")")
        ELSE IF stoptimes.items[1].t # "obj" THEN Raise("AttributeError")
        ELSE departure_lines(
                "Timetable for " \o PyStr(stop_name) \o " (" \o a.stop_id \o ") - Next "
                    \o ToString(time_range_minutes) \o " minutes:\n",
                stoptimes.items, Get(stoptimes.items[1].serviceDay, Num(0)))

\* stop.get(key, 'N/A') inside the f-string of get_stop_info and find_stop.
attr(stop, key) == PyStr(Get(stop[key], Str("N/A")))

\* The part of get_stop_info after its await.
get_stop_info(a, data) ==
    IF Falsy(data) THEN Return("Unable to fetch information for stop ID: " \o a.stop_id)
    ELSE IF data.t = "int" THEN Raise("TypeError")
    ELSE IF data.t = "list" \/ data.data.t = "absent"
        THEN Return("Unable to fetch information for stop ID: " \o a.stop_id)
    ELSE IF data.data.t = "null" THEN Raise("AttributeError")
    ELSE IF data.data.t = "emptyobj" \/ Falsy(data.data.stop)
        THEN Return("Unable to fetch information for stop ID: " \o a.stop_id)
    ELSE
    LET stop == data.data.stop
    IN  Return("Stop Information:\n"
               \o "Name: " \o attr(stop, "name") \o "\n"
               \o "GTFS ID: " \o attr(stop, "gtfsId") \o "\n"
               \o "Code: " \o attr(stop, "code") \o "\n"
               \o "Description: " \o attr(stop, "desc") \o "\n"
               \o "Location: " \o attr(stop, "lat") \o ", " \o attr(stop, "lon") \o "\n"
               \o "Zone: " \o attr(stop, "zoneId") \o "\n"
               \o "Platform: " \o attr(stop, "platformCode") \o "\n")

\* One entry of find_stop's listing.
stop_entry(stop) ==
    "ID: " \o attr(stop, "gtfsId") \o "\n"
    \o "  Name: " \o attr(stop, "name") \o "\n"
    \o "  Code: " \o attr(stop, "code") \o "\n"
    \o "  Location: " \o attr(stop, "desc") \o "\n"
    \o "  Coordinates: " \o attr(stop, "lat") \o ", " \o attr(stop, "lon")

\* Variant: the limit is not applied.
limit_results_unlimited(stops, limit) == stops

\* stops[:limit]
limit_results(stops, limit) == SliceTo(stops, limit)

\* The part of find_stop after its await.
find_stop(a, data) ==
    IF Falsy(data) THEN Return("Unable to search for stops with name: " \o a.name)
    ELSE IF data.t = "int" THEN Raise("TypeError")
    ELSE IF data.t = "list" \/ data.data.t = "absent"
        THEN Return("Unable to search for stops with name: " \o a.name)
    ELSE IF data.data.t = "null" THEN Raise("AttributeError")
    ELSE
    LET stops == IF data.data.t = "emptyobj" THEN List(<<>>)
                 ELSE Get(data.data.stops, List(<<>>))
    IN  IF Falsy(stops) THEN Return("No stops found matching: " \o a.name)
        ELSE
        LET shown == limit_results(stops.items, a.limit)
            results == [k \in 1..Len(shown) |-> stop_entry(shown[k])]
            header == "Found " \o ToString(Len(shown)) \o " stop(s) matching '"
                      \o a.name \o "':\n\n"
        IN  Return(header \o Join(results, "\n\n"))
(***************************************************************************)
(* draft_finnish.py                                                        *)
(***************************************************************************)
VLLM_ENDPOINT_ENV == "VLLM_ENDPOINT"
DEFAULT_MODEL == "meta-llama/Llama-3.1-8B-Instruct"

\* os.getenv(key): None when the variable is unset.
getenv(key) == IF environ[key].t = "absent" THEN Null ELSE environ[key]

\* repr(v), as f"{data}" renders the parsed response.
ReprChar(c) == IF c = "\n" THEN "\\n" ELSE c
RECURSIVE PyRepr(_)
PyRepr(v) ==
    CASE v.t = "null" -> "None"
      [] v.t = "emptyobj" -> "{}"
      [] v.t = "int" -> ToString(v.n)
      [] v.t = "str" -> "'" \o v.s \o "'"
      [] v.t = "text" ->
            "'" \o Join([k \in 1..Len(v.chars) |-> ReprChar(v.chars[k])], "") \o "'"
      [] v.t = "list" ->
            "[" \o Join([k \in 1..Len(v.items) |-> PyRepr(v.items[k])], ", ") \o "]"
      [] v.t = "obj" ->
            LET key == CHOOSE k \in DOMAIN v : k # "t"
            IN  "{'" \o key \o "': " \o PyRepr(v[key]) \o "}"
      [] OTHER -> "?"

\* str.strip(): leading and trailing whitespace removed.
Whitespace == {" ", "\n", "\t"}
RECURSIVE LStrip(_)
LStrip(q) == IF q # <<>> /\ Head(q) \in Whitespace THEN LStrip(Tail(q)) ELSE q
RECURSIVE RStrip(_)
RStrip(q) ==
    IF q # <<>> /\ q[Len(q)] \in Whitespace THEN RStrip(SubSeq(q, 1, Len(q) - 1)) ELSE q
strip(q) == RStrip(LStrip(q))

\* _post_to_vllm: the parsed body, or the exception that leaves it.
\* raise_for_status raises HTTPStatusError, the transport raises a
\* RequestError, response.json() raises json.JSONDecodeError.
post_to_vllm(r) ==
    CASE r.net = "http_error" -> Raise("HTTPStatusError")
      [] r.net = "request_error" -> Raise("RequestError")
      [] r.net = "not_json" -> Raise("JSONDecodeError")
      [] OTHER -> [kind |-> "value", text |-> "", v |-> r.body]

\* Variant: "system_prompt if system_prompt is not None else DEFAULT".
build_messages_none_check(prompt, system_prompt) ==
    LET system == IF system_prompt = Null THEN DEFAULT_SYSTEM_PROMPT ELSE system_prompt
    IN  (IF Falsy(system) THEN <<>> ELSE <<[role |-> "system", content |-> system.s]>>)
        \o <<[role |-> "user", content |-> prompt]>>

\* _build_messages
build_messages(prompt, system_prompt) ==
    LET system == IF Falsy(system_prompt) THEN DEFAULT_SYSTEM_PROMPT ELSE system_prompt
    IN  (IF Falsy(system) THEN <<>> ELSE <<[role |-> "system", content |-> system.s]>>)
        \o <<[role |-> "user", content |-> prompt]>>

\* data["choices"][0]["message"]["content"]: the value, or the KeyError,
\* IndexError or TypeError of the first subscript that fails.
Subscript(v, key) ==
    IF v.t = "emptyobj" THEN Raise("KeyError")
    ELSE IF v.t # "obj" THEN Raise("TypeError")
    ELSE IF key \notin DOMAIN v THEN Raise("KeyError")
    ELSE [kind |-> "value", text |-> "", v |-> v[key]]
First(v) ==
    IF v.t \in {"emptyobj", "obj"} THEN Raise("KeyError")
    ELSE IF v.t # "list" THEN Raise("TypeError")
    ELSE IF v.items = <<>> THEN Raise("IndexError")
    ELSE [kind |-> "value", text |-> "", v |-> v.items[1]]
extract_completion(data) ==
    LET choices == Subscript(data, "choices")
        choice == IF choices.kind = "raise" THEN choices ELSE First(choices.v)
        message == IF choice.kind = "raise" THEN choice ELSE Subscript(choice.v, "message")
    IN  IF message.kind = "raise" THEN message ELSE Subscript(message.v, "content")

ConfigError ==
    "VLLM endpoint is not configured. Set the environment variable "
    \o VLLM_ENDPOINT_ENV \o " to the vLLM /v1/chat/completions URL."

\* The part of draft_finnish after its await; endpoint is its local.
draft_finnish(endpoint, r) ==
    LET data == post_to_vllm(r)
    IN  IF data.kind = "raise" /\ data.text = "HTTPStatusError"
            THEN Return("vLLM returned an error: " \o ToString(r.status) \o " " \o r.text)
        ELSE IF data.kind = "raise" /\ data.text = "RequestError"
            THEN Return("Unable to reach vLLM endpoint at " \o PyStr(endpoint) \o ": " \o r.err)
        ELSE IF data.kind = "raise" THEN data
        ELSE
        LET completion == extract_completion(data.v)
        IN  IF completion.kind = "raise"
                THEN Return("Unexpected response format from vLLM: " \o PyRepr(data.v))
            ELSE IF completion.v.t # "text" THEN Raise("AttributeError")
            ELSE Return(Join(strip(completion.v.chars), ""))
(***************************************************************************)
(* Inputs: the arguments the harness passes and the answers the upstream   *)
(* services give.                                                          *)
(***************************************************************************)
Slots == {"s1", "s2"}
TransitTools == {"find_stop", "get_stop_info", "get_departures", "get_timetable"}
Tools == TransitTools \cup {"draft_finnish"}

Args(o) ==
    CASE o = "find_stop" ->
            [name : {"Kamppi"}, limit : (0 - MaxStops)..(MaxStops + 1)]
      [] o = "get_stop_info" -> [stop_id : {"HSL:1020552"}]
      [] o = "get_departures" -> [stop_id : {DEFAULT_STOP_ID}, limit : {5, 10}]
      [] o = "get_timetable" ->
            [stop_id : {DEFAULT_STOP_ID}, start_time : {0}, time_range : {3600, 90}]
      [] OTHER ->
            [prompt : {"Hei maailma!"}, temperature : {"0.7"}, max_tokens : {1024},
             system_prompt : {Null, Str(""), Str("Vastaa lyhyesti.")}]

\* Upstream failures of the transit API, and bodies that carry no usable data.
TransitFailures ==
    {[net |-> n, body |-> Null] : n \in {"transport_error", "http_error", "not_json"}}
DataBody(d) == [t |-> "obj", data |-> d]
TransitOddBodies ==
    {Null, EmptyObj, List(<<>>), Num(5), DataBody(Absent), DataBody(Null),
     DataBody(EmptyObj)}

\* find_stop: the k-th stop of the upstream list (a Stop object); some
\* attributes are null or missing.
Stop(k) ==
    [t |-> "obj", gtfsId |-> Str("HSL:" \o ToString(k)), name |-> Str("Kamppi"),
     code |-> IF k = 2 THEN Null ELSE Str("H" \o ToString(k)),
     desc |-> IF k = 3 THEN Absent ELSE Str("Kampin keskus"),
     lat |-> Num(60), lon |-> Num(24)]
StopList(n) == [k \in 1..n |-> Stop(k)]
FindStopBodies ==
    {DataBody([t |-> "obj", stop |-> Absent, stops |-> x]) :
        x \in {Null} \cup {List(StopList(n)) : n \in 0..MaxStops}}

\* get_stop_info: at most MaxMissing attributes are absent or null.
StopAttrs == {"name", "gtfsId", "code", "desc", "lat", "lon", "zoneId", "platformCode"}
AttrValue(k) ==
    CASE k = "name" -> Str("Rautatientori")
      [] k = "gtfsId" -> Str("HSL:1020552")
      [] k = "code" -> Str("H0302")
      [] k = "desc" -> Str("Kaivokatu")
      [] k = "lat" -> Num(60)
      [] k = "lon" -> Num(24)
      [] k = "zoneId" -> Str("A")
      [] OTHER -> Str("2")
StopInfo(missing, nulls) ==
    [k \in StopAttrs \cup {"t"} |->
        IF k = "t" THEN "obj"
        ELSE IF k \in missing THEN Absent
        ELSE IF k \in nulls THEN Null
        ELSE AttrValue(k)]
StopInfos ==
    {StopInfo(m, n) : <<m, n>> \in
        {p \in (SUBSET StopAttrs) \X (SUBSET StopAttrs) :
            p[1] \cap p[2] = {} /\ Cardinality(p[1] \cup p[2]) <= MaxMissing}}
StopInfoBodies ==
    {DataBody([t |-> "obj", stop |-> x, stops |-> Absent]) :
        x \in {Null, EmptyObj} \cup StopInfos}

\* get_departures / get_timetable: stop-time records.
Trips == {Absent, Null, EmptyObj, [t |-> "obj", routeShortName |-> Str("5")]}
Delays == {Absent, Null} \cup {Num(d) : d \in (0 - MaxDelay)..MaxDelay}
StopTime(sched, delay, trip, day, headsign) ==
    [t |-> "obj", scheduledDeparture |-> sched, departureDelay |-> delay,
     scheduledArrival |-> sched, arrivalDelay |-> delay,
     headsign |-> headsign, trip |-> trip, serviceDay |-> day]
FirstStopTimes ==
    {Null}
    \cup {StopTime(Num(600), d, tr, Num(0), Str("X")) : d \in Delays, tr \in Trips}
    \cup {StopTime(s, Num(30), [t |-> "obj", routeShortName |-> Str("5")], Num(0), Str("X")) :
            s \in {Absent, Null, Num(3661)}}
    \cup {StopTime(Num(600), Num(0), [t |-> "obj", routeShortName |-> Absent], day, Absent) :
            day \in {Absent, Null, Num(86400)}}
LaterStopTimes ==
    {Null,
     StopTime(Num(3661), Num(0 - 1), [t |-> "obj", routeShortName |-> Str("7")],
              Num(86400), Str("Y")),
     StopTime(Num(900), Null, Absent, Num(0), Absent)}
RECURSIVE Tuples(_, _)
Tuples(S, n) ==
    IF n = 0 THEN {<<>>}
    ELSE LET shorter == Tuples(S, n - 1)
         IN  shorter \cup {<<x>> \o q : x \in S, q \in {p \in shorter : Len(p) = n - 1}}
StopTimeLists ==
    {<<>>} \cup {<<f>> \o rest : f \in FirstStopTimes,
                                 rest \in Tuples(LaterStopTimes, MaxStoptimes - 1)}
DepartureStops ==
    {Null}
    \cup {[t |-> "obj", name |-> n, stoptimesWithoutPatterns |-> x] :
            n \in {Str("Arkadian puisto")}, x \in {List(q) : q \in StopTimeLists}}
    \cup {[t |-> "obj", name |-> n, stoptimesWithoutPatterns |-> x] :
            n \in {Str("Arkadian puisto"), Absent, Null},
            x \in {Absent, Null, List(<<>>),
                   List(<<StopTime(Num(600), Num(30),
                                   [t |-> "obj", routeShortName |-> Str("5")],
                                   Num(0), Str("X"))>>)}}
DepartureBodies ==
    {DataBody([t |-> "obj", stop |-> x, stops |-> Absent]) : x \in DepartureStops}

\* Answers of the inference endpoint.
Chars == {" ", "\n", "a"}
Contents == {Null, Num(5)} \cup {Text(q) : q \in Tuples(Chars, MaxContentLen)}
Messages == {Null, EmptyObj, Str("hi")} \cup {[t |-> "obj", content |-> c] : c \in Contents}
Choices == {Null, EmptyObj} \cup {[t |-> "obj", message |-> m] : m \in Messages}
ChatBodies ==
    {Null, EmptyObj, List(<<>>), Num(5)}
    \cup {[t |-> "obj", choices |-> x] :
            x \in {Null, EmptyObj, List(<<>>)} \cup {List(<<c>>) : c \in Choices}}
ChatReplies ==
    {[net |-> "http_error", status |-> st, text |-> "Internal Server Error"] :
        st \in {404, 500}}
    \cup {[net |-> "request_error", err |-> e] : e \in {"All connection attempts failed", ""}}
    \cup {[net |-> "not_json"]}
    \cup {[net |-> "json", body |-> b] : b \in ChatBodies}

Replies(o) ==
    CASE o = "find_stop" ->
            TransitFailures \cup {[net |-> "json", body |-> b] :
                                    b \in TransitOddBodies \cup FindStopBodies}
      [] o = "get_stop_info" ->
            TransitFailures \cup {[net |-> "json", body |-> b] :
                                    b \in TransitOddBodies \cup StopInfoBodies}
      [] o \in {"get_departures", "get_timetable"} ->
            TransitFailures \cup {[net |-> "json", body |-> b] :
                                    b \in TransitOddBodies \cup DepartureBodies}
      [] OTHER -> ChatReplies
\* Representative arguments and answers for the interleaved runs.
SomeArgs(o) ==
    CASE o = "find_stop" -> [name : {"Kamppi"}, limit : {0 - 1, 2}]
      [] o = "get_stop_info" -> [stop_id : {"HSL:1020552"}]
      [] o = "get_departures" -> [stop_id : {DEFAULT_STOP_ID}, limit : {10}]
      [] o = "get_timetable" ->
            [stop_id : {DEFAULT_STOP_ID}, start_time : {0}, time_range : {3600}]
      [] OTHER ->
            [prompt : {"Hei maailma!"}, temperature : {"0.7"}, max_tokens : {1024},
             system_prompt : {Null, Str("Vastaa lyhyesti.")}]
OneDeparture(delay, trip) ==
    [net |-> "json",
     body |-> DataBody([t |-> "obj", stops |-> Absent,
                        stop |-> [t |-> "obj", name |-> Str("Arkadian puisto"),
                                  stoptimesWithoutPatterns |->
                                      List(<<StopTime(Num(600), delay, trip, Num(0),
                                                      Str("X"))>>)]])]
SomeReplies(o) ==
    CASE o = "find_stop" ->
            {[net |-> "transport_error", body |-> Null],
             [net |-> "json", body |-> DataBody(Null)],
             [net |-> "json",
              body |-> DataBody([t |-> "obj", stop |-> Absent,
                                 stops |-> List(StopList(MaxStops))])]}
      [] o = "get_stop_info" ->
            {[net |-> "http_error", body |-> Null],
             [net |-> "json",
              body |-> DataBody([t |-> "obj", stop |-> Null, stops |-> Absent])],
             [net |-> "json",
              body |-> DataBody([t |-> "obj", stop |-> StopInfo({"desc"}, {"code"}),
                                 stops |-> Absent])]}
      [] o \in {"get_departures", "get_timetable"} ->
            {[net |-> "not_json", body |-> Null],
             OneDeparture(Num(30), [t |-> "obj", routeShortName |-> Str("5")]),
             OneDeparture(Num(0), Null)}
      [] OTHER ->
            {[net |-> "http_error", status |-> 500, text |-> "Internal Server Error"],
             [net |-> "request_error", err |-> "All connection attempts failed"],
             [net |-> "not_json"],
             [net |-> "json", body |-> EmptyObj],
             [net |-> "json",
              body |-> [t |-> "obj", choices |->
                           List(<<[t |-> "obj", message |->
                                      [t |-> "obj", content |-> Text(<<" ", "a", " ">>)]]>>)]],
             [net |-> "json",
              body |-> [t |-> "obj", choices |->
                           List(<<[t |-> "obj", message |->
                                      [t |-> "obj", content |-> Null]]>>)]]}

EnvKeys == {"VLLM_ENDPOINT", "VLLM_API_KEY", "VLLM_MODEL"}
EnvValues(k) ==
    CASE k = "VLLM_ENDPOINT" -> {Absent, Str(""), Str("http://mock.local/v1/chat/completions")}
      [] k = "VLLM_API_KEY" -> {Absent, Str("secret")}
      [] OTHER -> {Absent, Str("mock-model")}

(***************************************************************************)
(* The state machine.                                                      *)
(***************************************************************************)
NoArgs == [none |-> TRUE]
NoRequest == [kind |-> "none"]
NoReply == [net |-> "none"]
NoEnv == [none |-> TRUE]
NoFmt == [applied |-> FALSE]

Init ==
    /\ pc = [i \in Slots |-> "idle"]
    /\ op = [i \in Slots |-> "none"]
    /\ args = [i \in Slots |-> NoArgs]
    /\ local_endpoint = [i \in Slots |-> Null]
    /\ started = [i \in Slots |-> NoEnv]
    /\ sent = [i \in Slots |-> NoRequest]
    /\ reply = [i \in Slots |-> NoReply]
    /\ outcome = [i \in Slots |-> NoOutcome]
    /\ calls = [i \in Slots |-> 0]
    /\ environ = [k \in EnvKeys |-> Absent]
    /\ DEFAULT_SYSTEM_PROMPT \in
            {Str(""), Str("Olet avulias suomenkielinen avustaja.")}
    /\ utcOffset \in {0, 7200}
    /\ fmt = NoFmt

\* The GraphQL query a transit tool builds from its arguments.
graphql_query(o, a) ==
    CASE o = "find_stop" -> "{ stops(name: \"" \o a.name \o "\") }"
      [] o = "get_stop_info" -> "{ stop(id: \"" \o a.stop_id \o "\") }"
      [] o = "get_departures" ->
            "{ stop(id: \"" \o a.stop_id \o "\") { stoptimesWithoutPatterns("
            \o "numberOfDepartures: " \o ToString(a.limit) \o ") } }"
      [] OTHER ->
            "{ stop(id: \"" \o a.stop_id \o "\") { stoptimesWithoutPatterns("
            \o "startTime: " \o ToString(a.start_time)
            \o " timeRange: " \o ToString(a.time_range)
            \o " numberOfDepartures: 50) } }"

\* The request draft_finnish builds: headers and payload.
chat_request(a, e) ==
    LET model == Get(environ["VLLM_MODEL"], Str(DEFAULT_MODEL))
        api_key == getenv("VLLM_API_KEY")
    IN  [kind |-> "chat", endpoint |-> e,
         auth |-> IF Falsy(api_key) THEN Absent ELSE Str("Bearer " \o api_key.s),
         model |-> model.s,
         messages |-> build_messages(a.prompt, a.system_prompt),
         temperature |-> a.temperature, max_tokens |-> a.max_tokens]

\* Variant: "if endpoint is None", which lets an empty endpoint through.
not_configured_none_only(e) == e = Null

\* "if not endpoint": the configuration check of draft_finnish.
not_configured(e) == Falsy(e)

\* A tool is invoked: the coroutine runs up to its await.
Invoke(i, o, a) ==
    /\ pc[i] = "idle"
    /\ op' = [op EXCEPT ![i] = o]
    /\ args' = [args EXCEPT ![i] = a]
    /\ IF o \in TransitTools
       THEN /\ sent' = [sent EXCEPT ![i] = [kind |-> "graphql", query |-> graphql_query(o, a)]]
            /\ calls' = [calls EXCEPT ![i] = calls[i] + 1]
            /\ pc' = [pc EXCEPT ![i] = "awaiting"]
            /\ UNCHANGED <<local_endpoint, started, outcome>>
       ELSE LET e == getenv(VLLM_ENDPOINT_ENV)
            IN  /\ started' = [started EXCEPT ![i] = environ]
                /\ local_endpoint' = [local_endpoint EXCEPT ![i] = e]
                /\ IF not_configured(e)
                   THEN /\ outcome' = [outcome EXCEPT ![i] = Return(ConfigError)]
                        /\ pc' = [pc EXCEPT ![i] = "done"]
                        /\ UNCHANGED <<sent, calls>>
                   ELSE /\ sent' = [sent EXCEPT ![i] = chat_request(a, e)]
                        /\ calls' = [calls EXCEPT ![i] = calls[i] + 1]
                        /\ pc' = [pc EXCEPT ![i] = "awaiting"]
                        /\ UNCHANGED outcome
    /\ UNCHANGED <<reply, environ, DEFAULT_SYSTEM_PROMPT, utcOffset, fmt>>

\* The upstream answers the outstanding call (or the call fails).
Respond(i, r) ==
    /\ pc[i] = "awaiting"
    /\ reply' = [reply EXCEPT ![i] = r]
    /\ pc' = [pc EXCEPT ![i] = "resumed"]
    /\ UNCHANGED <<op, args, local_endpoint, started, sent, outcome, calls, environ,
                   DEFAULT_SYSTEM_PROMPT, utcOffset, fmt>>

\* What the coroutine computes between its await and its end.
after_await(o, a, e, r) ==
    CASE o = "find_stop" -> find_stop(a, make_graphql_request(r))
      [] o = "get_stop_info" -> get_stop_info(a, make_graphql_request(r))
      [] o = "get_departures" -> get_departures(a, make_graphql_request(r))
      [] o = "get_timetable" -> get_timetable(a, make_graphql_request(r))
      [] OTHER -> draft_finnish(e, r)

\* Variant: the endpoint is read from the environment again after the await.
reread_endpoint(i) == getenv(VLLM_ENDPOINT_ENV)

\* The local "endpoint" as the code after the await reads it.
read_endpoint(i) == local_endpoint[i]

\* Variant: a failed call is issued once more before giving up.
FinishRetrying(i) ==
    /\ pc[i] = "resumed"
    /\ IF reply[i].net # "json" /\ calls[i] < 2
       THEN /\ calls' = [calls EXCEPT ![i] = calls[i] + 1]
            /\ reply' = [reply EXCEPT ![i] = NoReply]
            /\ pc' = [pc EXCEPT ![i] = "awaiting"]
            /\ UNCHANGED outcome
       ELSE /\ outcome' = [outcome EXCEPT ![i] =
                                after_await(op[i], args[i], local_endpoint[i], reply[i])]
            /\ pc' = [pc EXCEPT ![i] = "done"]
            /\ UNCHANGED <<calls, reply>>
    /\ UNCHANGED <<op, args, local_endpoint, started, sent, environ,
                   DEFAULT_SYSTEM_PROMPT, utcOffset, fmt>>

\* The coroutine resumes and runs to its return or to the escaping exception.
Finish(i) ==
    /\ pc[i] = "resumed"
    /\ outcome' = [outcome EXCEPT ![i] = after_await(op[i], args[i], read_endpoint(i), reply[i])]
    /\ pc' = [pc EXCEPT ![i] = "done"]
    /\ UNCHANGED <<op, args, local_endpoint, started, sent, reply, calls, environ,
                   DEFAULT_SYSTEM_PROMPT, utcOffset, fmt>>

\* The harness takes the result; nothing of the invocation remains.
Deliver(i) ==
    /\ pc[i] = "done"
    /\ pc' = [pc EXCEPT ![i] = "idle"]
    /\ op' = [op EXCEPT ![i] = "none"]
    /\ args' = [args EXCEPT ![i] = NoArgs]
    /\ local_endpoint' = [local_endpoint EXCEPT ![i] = Null]
    /\ started' = [started EXCEPT ![i] = NoEnv]
    /\ sent' = [sent EXCEPT ![i] = NoRequest]
    /\ reply' = [reply EXCEPT ![i] = NoReply]
    /\ outcome' = [outcome EXCEPT ![i] = NoOutcome]
    /\ calls' = [calls EXCEPT ![i] = 0]
    /\ UNCHANGED <<environ, DEFAULT_SYSTEM_PROMPT, utcOffset, fmt>>

\* The deployment (or a test) sets or unsets an environment variable.
SetEnv(k, v) ==
    /\ environ[k] # v
    /\ environ' = [environ EXCEPT ![k] = v]
    /\ UNCHANGED <<pc, op, args, local_endpoint, started, sent, reply, outcome, calls,
                   DEFAULT_SYSTEM_PROMPT, utcOffset, fmt>>

\* format_departure and format_arrival applied to one stop-time record.
FormatStopTimes ==
    [t : {"obj"}, scheduledDeparture : {Absent, Num(600)}, departureDelay : Delays,
     scheduledArrival : {Num(540)}, arrivalDelay : Delays,
     headsign : {Absent, Str("X")}, trip : Trips, serviceDay : {Absent}]
ApplyFormat(st, day) ==
    /\ ~fmt.applied
    /\ fmt' = [applied |-> TRUE, stoptime |-> st, service_day |-> day,
               departure |-> format_departure(st, day),
               arrival |-> format_arrival(st, day)]
    /\ UNCHANGED <<pc, op, args, local_endpoint, started, sent, reply, outcome, calls,
                   environ, DEFAULT_SYSTEM_PROMPT, utcOffset>>

DiscardFormat ==
    /\ fmt.applied
    /\ fmt' = NoFmt
    /\ UNCHANGED <<pc, op, args, local_endpoint, started, sent, reply, outcome, calls,
                   environ, DEFAULT_SYSTEM_PROMPT, utcOffset>>

Quiet(i) == \A j \in Slots \ {i} : pc[j] = "idle"

\* The whole server: invocations of all five tools interleave at their awaits.
Next ==
    \/ \E i \in Slots, o \in Tools : \E a \in SomeArgs(o) : Invoke(i, o, a)
    \/ \E i \in Slots : \E r \in SomeReplies(op[i]) : Respond(i, r)
    \/ \E i \in Slots : Finish(i)
    \/ \E i \in Slots : Deliver(i)
    \/ \E v \in EnvValues(VLLM_ENDPOINT_ENV) : SetEnv(VLLM_ENDPOINT_ENV, v)
Spec == Init /\ [][Next]_vars

\* The transit adapter, one invocation at a time, over all upstream answers.
TransitInit == Init /\ DEFAULT_SYSTEM_PROMPT = Str("")
TransitNext ==
    \/ \E i \in Slots, o \in TransitTools : \E a \in Args(o) : Quiet(i) /\ Invoke(i, o, a)
    \/ \E i \in Slots : \E r \in Replies(op[i]) : Respond(i, r)
    \/ \E i \in Slots : Finish(i)
    \/ \E i \in Slots : Deliver(i)
TransitSpec == TransitInit /\ [][TransitNext]_vars

\* The completion adapter, one invocation at a time, over all configurations.
DraftInit == Init /\ utcOffset = 0
DraftNext ==
    \/ \E i \in Slots : \E a \in Args("draft_finnish") : Quiet(i) /\ Invoke(i, "draft_finnish", a)
    \/ \E i \in Slots : \E r \in Replies(op[i]) : Respond(i, r)
    \/ \E i \in Slots : Finish(i)
    \/ \E i \in Slots : Deliver(i)
    \/ \E k \in EnvKeys : \E v \in EnvValues(k) : SetEnv(k, v)
DraftSpec == DraftInit /\ [][DraftNext]_vars

\* The two formatters as pure functions.
FormatNext ==
    \/ \E st \in FormatStopTimes, day \in {Num(0), Num(86400)} : ApplyFormat(st, day)
    \/ DiscardFormat
FormatSpec == Init /\ [][FormatNext]_vars
(***************************************************************************)
(* Properties.                                                             *)
(***************************************************************************)
Configured(env) == env[VLLM_ENDPOINT_ENV] \notin {Absent, Str("")}

\* C1: every transit operation ends by returning a string, whatever the
\* upstream did (failure, non-2xx, non-JSON, JSON of any shape): no exception
\* escapes to the caller.
C1_TransitAlwaysReturnsString ==
    \A i \in Slots :
        pc[i] = "done" /\ op[i] \in TransitTools => outcome[i].kind = "return"

\* C2: draft_finnish never throws: every configuration and every outcome of
\* the outbound call ends in a returned string.
C2_DraftNeverThrows ==
    \A i \in Slots :
        pc[i] = "done" /\ op[i] = "draft_finnish" => outcome[i].kind = "return"

\* C3: with the endpoint unset or empty when draft_finnish is called, the
\* invocation returns the configuration-error string and issues no outbound
\* call, whatever its arguments are.
C3_NoEndpointNoCall ==
    \A i \in Slots :
        op[i] = "draft_finnish" /\ ~Configured(started[i]) =>
            /\ pc[i] = "done"
            /\ outcome[i] = Return("VLLM endpoint is not configured. Set the environment "
                                   \o "variable VLLM_ENDPOINT to the vLLM "
                                   \o "/v1/chat/completions URL.")
            /\ calls[i] = 0
            /\ sent[i] = NoRequest
            /\ reply[i] = NoReply
C3_Witness ==
    \E i \in Slots :
        /\ pc[i] = "done" /\ op[i] = "draft_finnish"
        /\ started[i][VLLM_ENDPOINT_ENV] = Str("")
        /\ started[i]["VLLM_API_KEY"] # Absent
        /\ args[i].system_prompt # Null
        /\ calls[i] = 0

\* C4: an invocation of a transit operation, or of draft_finnish with an
\* endpoint configured, issues exactly one outbound call: never a second one
\* (no retry, also after a failure or a timeout), and its result exists only
\* after that call has completed.
C4_ExactlyOneCall ==
    \A i \in Slots :
        /\ calls[i] <= 1
        /\ pc[i] \in {"awaiting", "resumed"} => calls[i] = 1 /\ outcome[i] = NoOutcome
        /\ pc[i] = "awaiting" => reply[i] = NoReply
        /\ pc[i] = "done" =>
            /\ calls[i] = IF op[i] \in TransitTools \/ Configured(started[i]) THEN 1 ELSE 0
            /\ calls[i] = 1 => reply[i] # NoReply
C4_Witness ==
    \E i, j \in Slots :
        /\ pc[i] = "done" /\ op[i] = "draft_finnish" /\ calls[i] = 1
        /\ reply[i].net = "request_error"
        /\ pc[j] = "done" /\ op[j] \in TransitTools /\ calls[j] = 1
        /\ reply[j].net = "transport_error"

\* The text a string is stripped to: what is left between its leading and
\* its trailing whitespace.
IsStripOf(mid, chars) ==
    \E a, b \in 0..Len(chars) :
        /\ a + b <= Len(chars)
        /\ \A k \in 1..a : chars[k] \in {" ", "\n", "\t"}
        /\ \A k \in (Len(chars) - b + 1)..Len(chars) : chars[k] \in {" ", "\n", "\t"}
        /\ mid = SubSeq(chars, a + 1, Len(chars) - b)
        /\ mid # <<>> => mid[1] \notin {" ", "\n", "\t"} /\ mid[Len(mid)] \notin {" ", "\n", "\t"}
WellFormed(r) ==
    /\ r.net = "json"
    /\ r.body.t = "obj" /\ r.body.choices.t = "list" /\ r.body.choices.items # <<>>
    /\ r.body.choices.items[1].t = "obj"
    /\ r.body.choices.items[1].message.t = "obj"
    /\ r.body.choices.items[1].message.content.t = "text"
ContentOf(r) == r.body.choices.items[1].message.content.chars

\* C5: with an endpoint configured, the class of the call's outcome decides
\* the result: HTTP error status -> the string with status code and body;
\* transport failure -> the string with endpoint and error; success without a
\* usable choices[0].message.content -> the string embedding the raw
\* response; well-formed success -> exactly the stripped content.
C5_ResultByOutcomeClass ==
    \A i \in Slots :
        pc[i] = "done" /\ op[i] = "draft_finnish" /\ Configured(started[i]) =>
            CASE reply[i].net = "http_error" ->
                    outcome[i] = Return("vLLM returned an error: "
                                        \o ToString(reply[i].status) \o " " \o reply[i].text)
              [] reply[i].net = "request_error" ->
                    outcome[i] = Return("Unable to reach vLLM endpoint at "
                                        \o started[i][VLLM_ENDPOINT_ENV].s \o ": "
                                        \o reply[i].err)
              [] WellFormed(reply[i]) ->
                    /\ outcome[i].kind = "return"
                    /\ \E mid \in Tuples(Chars, MaxContentLen) :
                            /\ IsStripOf(mid, ContentOf(reply[i]))
                            /\ outcome[i].text = Join(mid, "")
              [] OTHER ->
                    /\ outcome[i].kind = "return"
                    /\ reply[i].net = "json" =>
                        outcome[i].text = "Unexpected response format from vLLM: "
                                          \o PyRepr(reply[i].body)

\* C6: the message sequence ends with exactly one user message carrying the
\* prompt, preceded by at most one system message: the caller's override when
\* non-empty, else the configured default when non-empty, else none.
C6_MessageSequence ==
    \A i \in Slots :
        sent[i].kind = "chat" =>
            LET m == sent[i].messages
                override == args[i].system_prompt
                system ==
                    IF override # Null /\ override # Str("") THEN <<override.s>>
                    ELSE IF DEFAULT_SYSTEM_PROMPT # Str("") THEN <<DEFAULT_SYSTEM_PROMPT.s>>
                    ELSE <<>>
            IN  /\ Len(m) = Len(system) + 1
                /\ m[Len(m)] = [role |-> "user", content |-> args[i].prompt]
                /\ Cardinality({k \in 1..Len(m) : m[k].role = "user"}) = 1
                /\ system # <<>> => m[1] = [role |-> "system", content |-> system[1]]
C6_Witness ==
    \E i \in Slots :
        /\ pc[i] = "done" /\ sent[i].kind = "chat"
        /\ args[i].system_prompt = Str("")
        /\ DEFAULT_SYSTEM_PROMPT # Str("") /\ Len(sent[i].messages) = 2

\* The delay annotation as the specification words it.
Annotation(d) ==
    IF d > 0 THEN " (Delayed by " \o ToString(d) \o "s)"
    ELSE IF d < 0 THEN " (Early by " \o ToString(IF d < 0 THEN 0 - d ELSE d) \o "s)"
    ELSE ""
DelayOf(v) == IF v = Absent THEN 0 ELSE v.n
LineHas(line, st, schedKey, delayKey, day, word, unknown) ==
    line.text = format_time(day, Get(st[schedKey], Num(0))).text
                \o Annotation(DelayOf(st[delayKey]))
                \o " - Route "
                \o (IF st.trip.t = "obj" THEN st.trip.routeShortName.s ELSE "N/A")
                \o word
                \o (IF st.headsign = Absent THEN unknown ELSE st.headsign.s)

\* C7: for a stop-time record with integer delay d the line of
\* format_departure (and of format_arrival) carries " (Delayed by {d}s)"
\* when d > 0, " (Early by {|d|}s)" when d < 0, and no annotation when d = 0
\* or the delay field is absent, between the rendered scheduled time and
\* " - Route".
C7_DelayAnnotation ==
    fmt.applied =>
        /\ fmt.stoptime.departureDelay # Null /\ fmt.departure.kind = "return" =>
                LineHas(fmt.departure, fmt.stoptime, "scheduledDeparture",
                        "departureDelay", fmt.service_day, " to ", "Unknown destination")
        /\ fmt.stoptime.arrivalDelay # Null /\ fmt.arrival.kind = "return" =>
                LineHas(fmt.arrival, fmt.stoptime, "scheduledArrival",
                        "arrivalDelay", fmt.service_day, " from ", "Unknown origin")
        /\ fmt.stoptime.trip # Null =>
                /\ fmt.stoptime.departureDelay # Null => fmt.departure.kind = "return"
                /\ fmt.stoptime.arrivalDelay # Null => fmt.arrival.kind = "return"
C7_Witness ==
    /\ fmt.applied
    /\ fmt.stoptime.departureDelay = Num(0 - MaxDelay)
    /\ fmt.stoptime.arrivalDelay = Num(1)
    /\ fmt.departure.kind = "return" /\ fmt.arrival.kind = "return"
\* The listing of the first k stops of an upstream list, k in the header.
StopsOf(r) == r.body.data.stops.items
HasStopList(r) ==
    /\ r.net = "json" /\ r.body.t = "obj" /\ r.body.data.t = "obj"
    /\ r.body.data.stops.t = "list"
Listing(name, stops, k) ==
    "Found " \o ToString(k) \o " stop(s) matching '" \o name \o "':\n\n"
    \o Join([m \in 1..(IF k < 0 THEN 0 ELSE k) |-> stop_entry(stops[m])], "\n\n")
FindStopLists(i, k) ==
    IF StopsOf(reply[i]) = <<>>
    THEN outcome[i] = Return("No stops found matching: " \o args[i].name)
    ELSE outcome[i] = Return(Listing(args[i].name, StopsOf(reply[i]), k))

Rendered(stop, k) ==
    IF stop[k] \in {Absent, Null} THEN "N/A"
    ELSE IF stop[k].t = "int" THEN ToString(stop[k].n) ELSE stop[k].s

\* C9: get_stop_info renders name, gtfsId, code, desc, lat, lon, zoneId and
\* platformCode as "N/A" when the API supplied no value (absent or null) and
\* as the value otherwise; an absent or null stop gives the "Unable to fetch
\* information for stop ID" string.
C9_StopInfoPlaceholders ==
    \A i \in Slots :
        pc[i] = "done" /\ op[i] = "get_stop_info" /\ reply[i].net = "json"
        /\ reply[i].body.t = "obj" /\ reply[i].body.data.t = "obj" =>
            LET stop == reply[i].body.data.stop
            IN  IF stop \in {Absent, Null}
                THEN outcome[i] = Return("Unable to fetch information for stop ID: "
                                         \o args[i].stop_id)
                ELSE stop.t = "obj" =>
                     outcome[i] = Return(
                        "Stop Information:\n"
                        \o "Name: " \o Rendered(stop, "name") \o "\n"
                        \o "GTFS ID: " \o Rendered(stop, "gtfsId") \o "\n"
                        \o "Code: " \o Rendered(stop, "code") \o "\n"
                        \o "Description: " \o Rendered(stop, "desc") \o "\n"
                        \o "Location: " \o Rendered(stop, "lat") \o ", "
                        \o Rendered(stop, "lon") \o "\n"
                        \o "Zone: " \o Rendered(stop, "zoneId") \o "\n"
                        \o "Platform: " \o Rendered(stop, "platformCode") \o "\n")

\* What an invocation gives when it runs alone: from its arguments, the
\* configuration at its start and the upstream answer.
RunAlone(o, a, env, r) ==
    IF o \in TransitTools THEN after_await(o, a, Null, r)
    ELSE IF ~Configured(env) THEN Return(ConfigError)
    ELSE draft_finnish(env[VLLM_ENDPOINT_ENV], r)

=============================================================================
